---- MODULE Spec2Model ----
(***************************************************************************)
(* A model of the type-erased vector of vectori.h: the struct vector       *)
(* (typeSize, length, iterator, data), the heap block data points to, and  *)
(* one action per public function.  Sizes are size_t values, kept modulo   *)
(* 2^SizeBits.  An access outside the block data points to is undefined    *)
(* behaviour: the call either ends the process (crashed) or goes on, with  *)
(* the bytes outside the block lost on a write and indeterminate on a read.*)
(***************************************************************************)
EXTENDS Integers, Sequences, FiniteSets, TLC

\* ------------------------------------------------------------------ bounds
\* width of size_t in the model (the program's is the platform's)
SizeBits == 7
\* element sizes a container is constructed with: 1..MaxTypeSize
MaxTypeSize == 3
\* vector_calloc2 is called with 0..MaxInitLen elements
MaxInitLen == 3
\* vector_realloc is called for at most MaxElems elements; growth beyond is not taken
MaxElems == 4
\* vector_insert is called while fewer than MaxCount elements are live
MaxCount == 3
\* a run makes at most MaxCalls calls after the constructor
MaxCalls == 3
\* element values passed as data: 1..MaxVal
MaxVal == 2
\* indices passed by callers: 0..MaxIndex, one whose product with typeSize 2
\* wraps to 0, and one whose product with typeSize 3 wraps to 1 or 2
MaxIndex == 4

\* --------------------------------------------------------------- constants
VECTOR_DEFAULT_LENGTH == 32

NULL == 0
\* an indeterminate byte (never written, or read from outside the block)
Undef == -1

RECURSIVE Pow2(_)
Pow2(n) == IF n = 0 THEN 1 ELSE 2 * Pow2(n - 1)

SizeMod == Pow2(SizeBits)
\* size_t arithmetic
SizeT(x) == x % SizeMod

TypeSizes == 1..MaxTypeSize
Values == 1..MaxVal
Indices == (0..MaxIndex) \cup {SizeMod \div 2, (SizeMod + 2) \div 3}
\* what undefined behaviour may do to the call
UBOutcomes == {"crash", "goon"}

\* the typeSize bytes data points to, for element value d
Elem(d, ts) == [k \in 1..ts |-> 16 * d + k]

VECTOR_MIN(X, Y) == IF X < Y THEN X ELSE Y
VECTOR_MAX(X, Y) == IF X > Y THEN X ELSE Y

\* ------------------------------------------------------------------- heap
\* the block data points to: its size in bytes, its bytes, whether it is live
NoBlock == [size |-> 0, mem |-> << >>, valid |-> FALSE]
ZeroBlock(n) == [size |-> n, mem |-> [i \in 1..n |-> 0], valid |-> TRUE]

\* an access of n bytes at offset off stays inside block b
InBounds(b, off, n) == n = 0 \/ (b.valid /\ off + n <= b.size)

ReadByte(b, off) == IF b.valid /\ off < b.size THEN b.mem[off + 1] ELSE Undef

\* memmove(data + dst, data + src, n) on block b
MemMove(b, dst, src, n) ==
    [b EXCEPT !.mem = [i \in 1..b.size |->
        IF dst <= i - 1 /\ i - 1 < dst + n
        THEN ReadByte(b, src + (i - 1 - dst))
        ELSE b.mem[i]]]

\* memcpy(data + dst, bytes, Len(bytes)) on block b
MemCpy(b, dst, bytes) ==
    [b EXCEPT !.mem = [i \in 1..b.size |->
        IF dst <= i - 1 /\ i - 1 < dst + Len(bytes)
        THEN bytes[i - dst]
        ELSE b.mem[i]]]

\* a pointer other than p
OtherPtr(p) == IF p = 1 THEN 2 ELSE 1

\* calloc(len, typeSize): a zeroed block, or NULL
Calloc(nbytes, outcome) ==
    IF outcome = "fail" THEN [data |-> NULL, block |-> NoBlock]
    ELSE [data |-> 1, block |-> ZeroBlock(nbytes)]

\* realloc(data, nbytes): the pointer returned and the block data then points to.
\* The old block is kept on failure; realloc(p, 0) may also release p and
\* return NULL ("freed").
Realloc(data, b, nbytes, outcome) ==
    LET keep == IF b.size < nbytes THEN b.size ELSE nbytes
        grown == [size |-> nbytes,
                  mem |-> [i \in 1..nbytes |-> IF i <= keep /\ b.valid THEN b.mem[i] ELSE Undef],
                  valid |-> TRUE]
    IN  CASE outcome = "fail" -> [ptr |-> NULL, block |-> b]
          [] outcome = "freed" -> [ptr |-> NULL, block |-> [b EXCEPT !.valid = FALSE]]
          [] outcome = "same" -> [ptr |-> data, block |-> grown]
          [] OTHER -> [ptr |-> OtherPtr(data), block |-> grown]

\* the answers the allocator can give to realloc(data, nbytes)
ReallocOutcomes(data, nbytes) ==
    {"fail", "moved"}
        \cup (IF data # NULL THEN {"same"} ELSE {})
        \cup (IF data # NULL /\ nbytes = 0 THEN {"freed"} ELSE {})

\* oob: the last call went outside the block data points to; str: what the
\* last vector_makestr returned
VARIABLES vector, block, crashed, call, ret, ncalls, oob, str

vars == << vector, block, crashed, call, ret, ncalls, oob, str >>

\* --------------------------------------------------------------- accessors
vector_isalloc(v) == TRUE
vector_bytesize(v) == v.length
vector_maxsize(v) == v.length \div v.typeSize
vector_typesize(v) == v.typeSize
vector_length(v) == v.length \div v.typeSize
vector_count(v) == v.iterator \div v.typeSize

\* ------------------------------------------------------------ constructors
vector_calloc(typeSize, reserve, outcome) ==
    LET len == SizeT((IF reserve THEN 1 ELSE 0) * VECTOR_DEFAULT_LENGTH)
        a == IF reserve THEN Calloc(SizeT(len * typeSize), outcome)
             ELSE [data |-> NULL, block |-> NoBlock]
    IN  [vector |-> [typeSize |-> typeSize, length |-> SizeT(len * typeSize),
                     iterator |-> 0, data |-> a.data],
         block |-> a.block]

vector_calloc2(typeSize, length, reserve, outcome) ==
    LET len == SizeT((IF reserve THEN 1 ELSE 0) * length)
        a == IF reserve THEN Calloc(SizeT(len * typeSize), outcome)
             ELSE [data |-> NULL, block |-> NoBlock]
    IN  [vector |-> [typeSize |-> typeSize, length |-> SizeT(len * typeSize),
                     iterator |-> 0, data |-> a.data],
         block |-> a.block]

\* the value a call returns: ok for a bool, (null, base, off) for a pointer
BoolRet(ok) == [ok |-> ok, null |-> TRUE, base |-> NULL, off |-> 0]
PtrRet(data, off) ==
    [ok |-> ~(data = NULL /\ off = 0), null |-> (data = NULL /\ off = 0),
     base |-> data, off |-> off]
NullRet == [ok |-> FALSE, null |-> TRUE, base |-> NULL, off |-> 0]

\* the result of a call: the struct, the block, the value returned, and
\* whether the call went outside the block data points to
Result(v, b, r, ub) == [vector |-> v, block |-> b, ret |-> r, ub |-> ub]

\* -------------------------------------------------------------- operations
vector_free(v, b) ==
    IF v.data = NULL THEN Result(v, b, BoolRet(FALSE), FALSE)
    ELSE Result([v EXCEPT !.data = NULL], NoBlock, BoolRet(TRUE), ~b.valid)

vector_realloc(v, b, length, outcome) ==
    LET r == Realloc(v.data, b, SizeT(length * v.typeSize), outcome)
        ub == v.data # NULL /\ ~b.valid
    IN  IF r.ptr # NULL
        THEN Result([v EXCEPT !.data = r.ptr, !.length = SizeT(length * v.typeSize)],
                    r.block, BoolRet(TRUE), ub)
        ELSE Result(v, r.block, BoolRet(FALSE), ub)

vector_move(v, b, iterator) ==
    IF SizeT(iterator * v.typeSize) > v.length
    THEN Result(v, b, BoolRet(FALSE), FALSE)
    ELSE Result([v EXCEPT !.iterator = SizeT(iterator * v.typeSize)], b,
                BoolRet(TRUE), FALSE)

\* for (i = 0; i < length; i += typeSize) memcpy(data + i, data, typeSize)
RECURSIVE ClearLoop(_, _, _, _)
ClearLoop(v, b, i, bytes) ==
    IF i < v.length
    THEN ClearLoop(v, MemCpy(b, i, bytes), SizeT(i + v.typeSize), bytes)
    ELSE b

\* vector_clear, were it to fill the live range only
vector_clear_live(v, b, d) ==
    IF v.length <= 0
    THEN Result(v, b, BoolRet(FALSE), FALSE)
    ELSE Result([v EXCEPT !.iterator = 0],
                ClearLoop([v EXCEPT !.length = v.iterator], b, 0, Elem(d, v.typeSize)),
                BoolRet(TRUE), ~InBounds(b, 0, v.iterator))

vector_clear(v, b, d) ==
    IF v.length <= 0
    THEN Result(v, b, BoolRet(FALSE), FALSE)
    ELSE Result([v EXCEPT !.iterator = 0], ClearLoop(v, b, 0, Elem(d, v.typeSize)),
                BoolRet(TRUE), ~InBounds(b, 0, v.length))

vector_insert(v, b, d, index, outcome) ==
    LET byteIndex == SizeT(index * v.typeSize)
        g == IF v.iterator = v.length
             THEN vector_realloc(v, b, SizeT(v.length * 2), outcome)
             ELSE Result(v, b, BoolRet(TRUE), FALSE)
        v1 == g.vector
        b1 == g.block
        n == v1.iterator - byteIndex
        dst == SizeT(byteIndex + v1.typeSize)
    IN  IF byteIndex > v1.iterator
        THEN Result(v1, b1, BoolRet(FALSE), g.ub)
        ELSE Result([v1 EXCEPT !.iterator = SizeT(v1.iterator + v1.typeSize)],
                    MemCpy(MemMove(b1, dst, byteIndex, n), byteIndex, Elem(d, v1.typeSize)),
                    BoolRet(TRUE),
                    \/ g.ub
                    \/ ~InBounds(b1, dst, n)
                    \/ ~InBounds(b1, byteIndex, n)
                    \/ ~InBounds(b1, byteIndex, v1.typeSize))

vector_replace(v, b, d, index) ==
    LET byteIndex == SizeT(index * v.typeSize)
    IN  IF byteIndex >= v.iterator
        THEN Result(v, b, BoolRet(FALSE), FALSE)
        ELSE Result(v, MemCpy(b, byteIndex, Elem(d, v.typeSize)), BoolRet(TRUE),
                    ~InBounds(b, byteIndex, v.typeSize))

vector_replace_unsafe(v, b, d, index, byteCount) ==
    LET byteIndex == SizeT(index * v.typeSize)
    IN  IF byteIndex >= v.iterator
        THEN Result(v, b, BoolRet(FALSE), FALSE)
        ELSE Result(v, MemCpy(b, byteIndex, Elem(d, byteCount)), BoolRet(TRUE),
                    ~InBounds(b, byteIndex, byteCount))

\* vector_remove, were it to move the cursor back without the shift
vector_remove_noshift(v, b, index) ==
    LET byteIndex == SizeT(index * v.typeSize)
        iterator == SizeT(v.iterator - (IF v.iterator > 0 THEN v.typeSize ELSE 0))
    IN  IF v.data = NULL \/ byteIndex > v.iterator
        THEN Result(v, b, BoolRet(FALSE), FALSE)
        ELSE Result([v EXCEPT !.iterator = iterator], b, BoolRet(TRUE), FALSE)

\* the size vector_remove passes to memmove: iterator - byteIndex, in size_t,
\* with the iterator already moved back
remove_memmove_size(v, index) ==
    LET byteIndex == SizeT(index * v.typeSize)
        iterator == SizeT(v.iterator - (IF v.iterator > 0 THEN v.typeSize ELSE 0))
    IN  SizeT(iterator - byteIndex)

vector_remove(v, b, index) ==
    LET byteIndex == SizeT(index * v.typeSize)
        iterator == SizeT(v.iterator - (IF v.iterator > 0 THEN v.typeSize ELSE 0))
        n == remove_memmove_size(v, index)
    IN  IF v.data = NULL \/ byteIndex > v.iterator
        THEN Result(v, b, BoolRet(FALSE), FALSE)
        ELSE Result([v EXCEPT !.iterator = iterator],
                    MemMove(b, byteIndex, byteIndex + v.typeSize, n),
                    BoolRet(TRUE),
                    ~InBounds(b, byteIndex, n) \/ ~InBounds(b, byteIndex + v.typeSize, n))

vector_get(v, b, index) ==
    LET byteIndex == SizeT(index * v.typeSize)
    IN  IF byteIndex > v.iterator
        THEN Result(v, b, NullRet, FALSE)
        ELSE Result(v, b, PtrRet(v.data, byteIndex), FALSE)

\* vector_makestr, were it to copy the last - first bytes asked for
vector_makestr_range(v, b, first, last, wantLen, outcome) ==
    LET length == SizeT(last - first)
        a == Calloc(SizeT(length + 1), outcome)
    IN  [null |-> a.data = NULL,
         text |-> [i \in 1..a.block.size |-> IF i <= length THEN ReadByte(b, i - 1) ELSE 0],
         outLen |-> IF wantLen THEN length ELSE Undef,
         copied |-> length,
         ub |-> length > 0 /\ (a.data = NULL \/ ~InBounds(b, 0, length))]

\* both branches compute the same length, allocate length + 1 zeroed chars
\* and copy length bytes from data; the first also stores the length in *outLen
vector_makestr(v, b, first, last, wantLen, outcome) ==
    LET length == VECTOR_MIN(0, VECTOR_MAX(SizeT(last - first), last))
        a == Calloc(SizeT(length + 1), outcome)
    IN  [null |-> a.data = NULL,
         text |-> [i \in 1..a.block.size |-> IF i <= length THEN ReadByte(b, i - 1) ELSE 0],
         outLen |-> IF wantLen THEN length ELSE Undef,
         copied |-> length,
         ub |-> length > 0 /\ (a.data = NULL \/ ~InBounds(b, 0, length))]

\* no string has been returned
NoStr == [null |-> TRUE, text |-> << >>, outLen |-> Undef, copied |-> 0, ub |-> FALSE]

\* the call a step makes: the function, its index or length argument, the
\* element value or byte count passed, and the allocator's answer
Call(op, index, d, outcome) == [op |-> op, index |-> index, data |-> d, outcome |-> outcome]

Init ==
    /\ \E ts \in TypeSizes, reserve \in BOOLEAN, outcome \in {"fail", "moved"} :
          \/ \E c \in {vector_calloc(ts, reserve, outcome)} :
                vector = c.vector /\ block = c.block
          \/ \E n \in 0..MaxInitLen :
                \E c \in {vector_calloc2(ts, n, reserve, outcome)} :
                   vector = c.vector /\ block = c.block
    /\ crashed = FALSE
    /\ call = Call("create", 0, 0, "none")
    /\ ret = NullRet
    /\ ncalls = 0
    /\ oob = FALSE
    /\ str = NoStr

\* one call: undefined behaviour, once met, may end the process instead of
\* returning
Returns(r, c) ==
    \E u \in (IF r.ub THEN UBOutcomes ELSE {"goon"}) :
        /\ ncalls < MaxCalls
        /\ ncalls' = ncalls + 1
        /\ call' = c
        /\ oob' = r.ub
        /\ str' = NoStr
        /\ IF u = "crash"
           THEN /\ crashed' = TRUE
                /\ UNCHANGED << vector, block, ret >>
           ELSE /\ crashed' = FALSE
                /\ vector' = r.vector
                /\ block' = r.block
                /\ ret' = r.ret

Free ==
    /\ ~crashed
    /\ Returns(vector_free(vector, block), Call("free", 0, 0, "none"))

ReallocCall ==
    /\ ~crashed
    /\ \E n \in 0..MaxElems :
       \E o \in ReallocOutcomes(vector.data, SizeT(n * vector.typeSize)) :
          Returns(vector_realloc(vector, block, n, o), Call("realloc", n, 0, o))

Move ==
    /\ ~crashed
    /\ \E i \in Indices :
          Returns(vector_move(vector, block, i), Call("move", i, 0, "none"))

Clear ==
    /\ ~crashed
    /\ \E d \in Values :
          Returns(vector_clear(vector, block, d), Call("clear", 0, d, "none"))

\* the growth vector_insert asks for, in bytes
GrowthBytes(v) == SizeT(SizeT(v.length * 2) * v.typeSize)

Insert ==
    /\ ~crashed
    /\ vector_count(vector) < MaxCount
    /\ \E d \in Values, i \in Indices :
          IF vector.iterator = vector.length
          THEN /\ GrowthBytes(vector) <= MaxElems * vector.typeSize
               /\ \E o \in ReallocOutcomes(vector.data, GrowthBytes(vector)) :
                     Returns(vector_insert(vector, block, d, i, o), Call("insert", i, d, o))
          ELSE Returns(vector_insert(vector, block, d, i, "none"),
                       Call("insert", i, d, "none"))

Replace ==
    /\ ~crashed
    /\ \E d \in Values, i \in Indices :
          Returns(vector_replace(vector, block, d, i), Call("replace", i, d, "none"))

ReplaceUnsafe ==
    /\ ~crashed
    /\ \E d \in Values, i \in Indices, n \in {1, vector.typeSize + 1} :
          Returns(vector_replace_unsafe(vector, block, d, i, n),
                  Call("replace_unsafe", i, 16 * d + n, "none"))

Remove ==
    /\ ~crashed
    /\ \E i \in Indices :
          Returns(vector_remove(vector, block, i), Call("remove", i, 0, "none"))

Get ==
    /\ ~crashed
    /\ \E i \in Indices :
          Returns(vector_get(vector, block, i), Call("get", i, 0, "none"))

\* first and last as passed to vector_makestr
StrBounds == {0, 1, 2, SizeMod - 1}

Makestr ==
    /\ ~crashed
    /\ ncalls < MaxCalls
    /\ \E first \in StrBounds, last \in StrBounds, wantLen \in BOOLEAN,
          outcome \in {"fail", "moved"} :
          \E s \in {vector_makestr(vector, block, first, last, wantLen, outcome)} :
          \E u \in (IF s.ub THEN UBOutcomes ELSE {"goon"}) :
             /\ ncalls' = ncalls + 1
             /\ call' = Call("makestr", first, last, outcome)
             /\ oob' = s.ub
             /\ crashed' = (u = "crash")
             /\ str' = (IF u = "crash" THEN NoStr ELSE s)
             /\ ret' = (IF u = "crash" THEN ret
                        ELSE [ok |-> ~s.null, null |-> s.null, base |-> NULL, off |-> 0])
             /\ UNCHANGED << vector, block >>

Next ==
    \/ Free
    \/ ReallocCall
    \/ Move
    \/ Clear
    \/ Insert
    \/ Replace
    \/ ReplaceUnsafe
    \/ Remove
    \/ Get

Spec == Init /\ [][Next]_vars

\* vector_makestr called on the containers insert and move build
NextStr ==
    \/ Makestr
    \/ Insert
    \/ Move

SpecStr == Init /\ [][NextStr]_vars

\* ------------------------------------------------------- derived quantities
count == vector_count(vector)
capacity == vector_maxsize(vector)

\* element slot k (from 1) of block b, as its typeSize bytes
Slot(b, ts, k) == [j \in 1..ts |-> ReadByte(b, (k - 1) * ts + (j - 1))]
\* the live sequence: the count() elements before the cursor
LiveSeq(v, b) == [k \in 1..vector_count(v) |-> Slot(b, v.typeSize, k)]

\* s with e put at (0-based) position i, the rest shifted right
InsertAt(s, i, e) ==
    [k \in 1..(Len(s) + 1) |-> IF k <= i THEN s[k] ELSE IF k = i + 1 THEN e ELSE s[k - 1]]
\* s without its element at (0-based) position i
RemoveAt(s, i) ==
    [k \in 1..(Len(s) - 1) |-> IF k <= i THEN s[k] ELSE s[k + 1]]

\* the container holds a live buffer of length bytes and its live elements
\* lie inside it
Consistent ==
    /\ vector.data # NULL
    /\ block.valid
    /\ block.size = vector.length
    /\ vector.iterator <= vector.length

\* ------------------------------------------------------------------ claims

\* C1: after every call that returns success count() <= capacity(), i.e.
\* iterator <= length; stated for the inserts that start from a container
\* holding a live buffer with count() <= capacity().
C1_CapacityInvariant ==
    [][(/\ call'.op = "insert"
        /\ Consistent
        /\ capacity > 0
        /\ ~crashed'
        /\ ret'.ok)
       => count' <= capacity']_vars

\* C2: an insert with a valid index on a full container of capacity > 0 whose
\* reallocation succeeds leaves capacity() exactly twice what it was, count()
\* one more, and the element in its slot, whatever the element size.
C2_GrowthDoubling ==
    [][(/\ call'.op = "insert"
        /\ ~crashed'
        /\ Consistent
        /\ count = capacity
        /\ capacity > 0
        /\ call'.index <= count
        /\ call'.outcome \in {"same", "moved"})
       => (/\ ret'.ok
           /\ capacity' = 2 * capacity
           /\ count' = count + 1
           /\ Slot(block', vector.typeSize, call'.index + 1)
                 = Elem(call'.data, vector.typeSize))]_vars

\* C3: on a container constructed with reserve = false every insert returns
\* failure and leaves count() = 0 and capacity() = 0; stated for the first
\* insert, with an allocator that answers realloc(NULL, 0) with a block.
C3_InsertUnreserved ==
    [][(/\ call'.op = "insert"
        /\ ~crashed'
        /\ ncalls = 0
        /\ vector.data = NULL
        /\ vector.length = 0
        /\ call'.outcome = "moved")
       => (~ret'.ok /\ count' = 0 /\ capacity' = 0)]_vars

\* the index lies outside the range documented for the function
OutOfRange(op, index) ==
    CASE op = "insert" -> index > count
      [] op = "replace" -> index >= count
      [] op = "remove" -> index > count
      [] op = "get" -> index > count
      [] op = "move" -> index > capacity
      [] OTHER -> FALSE

\* C4: insert, replace, remove, get or move_cursor called with an index outside
\* its documented range returns failure and leaves the buffer's identity and
\* contents, capacity_bytes and the cursor as they were; stated for the
\* indices whose byte offset does not wrap.
C4_OutOfBoundsPureFailure ==
    [][(/\ call'.op \in {"insert", "replace", "remove", "get", "move"}
        /\ ~crashed'
        /\ Consistent
        /\ capacity > 0
        /\ call'.index * vector.typeSize < SizeMod
        /\ OutOfRange(call'.op, call'.index))
       => (~ret'.ok /\ vector' = vector /\ block' = block)]_vars

\* C5: on an allocated container with live sequence s, count() = n and
\* capacity > 0, insert(data, index) with index <= n succeeds, count() becomes
\* n + 1 and the live sequence becomes s[0..index) ++ [data] ++ s[index..n),
\* whether or not the insert triggered growth.
C5_InsertResult ==
    [][(/\ call'.op = "insert"
        /\ Consistent
        /\ capacity > 0
        /\ call'.index <= count)
       => (/\ ~crashed'
           /\ ret'.ok
           /\ count' = count + 1
           /\ vector'.iterator <= block'.size
           /\ LiveSeq(vector', block')
                 = InsertAt(LiveSeq(vector, block), call'.index,
                            Elem(call'.data, vector.typeSize)))]_vars

\* C6: on an allocated container remove(index) with 0 <= index <= count()
\* returns success, takes exactly 1 off count() when count() > 0, leaves it 0
\* when it is 0, and leaves capacity() as it was.
C6_RemoveCount ==
    [][(/\ call'.op = "remove"
        /\ Consistent
        /\ call'.index <= count)
       => (/\ ~crashed'
           /\ ret'.ok
           /\ count' = (IF count > 0 THEN count - 1 ELSE 0)
           /\ capacity' = capacity)]_vars

\* C7: on an allocated container with live sequence s of n >= 1 elements (a
\* live buffer of length bytes holding the n elements before the cursor),
\* remove(index) with 0 <= index < n returns success and leaves the live
\* sequence s[0..index) ++ s[index+1..n), in order, and count() = n - 1.
C7_RemoveContent ==
    [][(/\ call'.op = "remove"
        /\ Consistent
        /\ count >= 1
        /\ call'.index < count)
       => (/\ ~crashed'
           /\ ret'.ok
           /\ count' = count - 1
           /\ LiveSeq(vector', block') = RemoveAt(LiveSeq(vector, block), call'.index))]_vars

\* a remove has succeeded and shifted an inserted element into the slot of
\* the element it removed
C7_Witness ==
    /\ call.op = "remove"
    /\ ~crashed
    /\ ret.ok
    /\ Consistent
    /\ call.index < count
    /\ \E d \in Values :
          Slot(block, vector.typeSize, call.index + 1) = Elem(d, vector.typeSize)

\* C8: on an allocated container (data points to a live block) with
\* capacity > 0, clear(v) returns success, count() is then 0, every one of the
\* capacity() slots holds a copy of v and capacity_bytes is as it was; on a
\* zero-capacity container clear fails and changes nothing.
C8_ClearResets ==
    [][(call'.op = "clear")
       => (/\ (vector.data # NULL /\ block.valid /\ vector.length > 0)
                => (/\ ~crashed'
                    /\ ret'.ok
                    /\ count' = 0
                    /\ vector'.length = vector.length
                    /\ capacity' * vector.typeSize = block'.size
                    /\ \A k \in 1..capacity' :
                          Slot(block', vector.typeSize, k)
                            = Elem(call'.data, vector.typeSize))
           /\ (vector.length = 0)
                => (~crashed' /\ ~ret'.ok /\ vector' = vector /\ block' = block))]_vars

\* a clear of a container that had live elements and spare slots has succeeded
C8_Witness ==
    /\ call.op = "clear"
    /\ ~crashed
    /\ ret.ok
    /\ ncalls >= 2
    /\ capacity >= 2
    /\ count = 0
    /\ \A k \in 1..capacity : Slot(block, vector.typeSize, k) = Elem(call.data, vector.typeSize)

\* C9: get(index) with index > count() returns NULL, for every value of the
\* index type, those whose product with the element size wraps included;
\* stated for a container holding a live buffer of capacity > 0.
C9_OutOfRangeGet ==
    [][(/\ call'.op = "get"
        /\ ~crashed'
        /\ Consistent
        /\ capacity > 0
        /\ call'.index > count)
       => ret'.null]_vars

\* C10: get(index) returns a non-NULL pointer only when 0 <= index < count() on
\* an allocated container, so the slot it points to lies inside the buffer;
\* stated for capacity > 0 and the indices whose byte offset does not wrap.
C10_GetBound ==
    [][(/\ call'.op = "get"
        /\ ~crashed'
        /\ capacity > 0
        /\ call'.index * vector.typeSize < SizeMod
        /\ ~ret'.null)
       => (/\ call'.index < count
           /\ vector.data # NULL
           /\ ret'.off + vector.typeSize <= block.size)]_vars

\* C11: vector_isalloc returns true exactly when the container holds a non-null
\* buffer: false for a container made with reserve = false and never
\* reallocated, false after free.
C11_IsAllocExact ==
    ~crashed => (vector_isalloc(vector) <=> vector.data # NULL)

\* C12: I4, in every reachable state (after a constructor whose allocation
\* failed and after free included) the buffer is NULL iff capacity_bytes is 0;
\* stated for the direction from a NULL buffer to capacity_bytes = 0.
C12_NullIffZeroCapacity ==
    (~crashed /\ vector.data = NULL) => vector_bytesize(vector) = 0

\* C13: vector_realloc(n) on a container holding a live buffer of capacity > 0:
\* when the allocator succeeds it returns success, capacity_bytes is exactly
\* n * element_size and the cursor and element_size are as they were, even when
\* n < count(); when it returns failure the buffer, capacity_bytes, the cursor
\* and element_size are all as they were.
C13_ReallocEffect ==
    [][(/\ call'.op = "realloc"
        /\ Consistent
        /\ capacity > 0)
       => (/\ ~crashed'
           /\ call'.outcome \in {"same", "moved"} => ret'.ok
           /\ ret'.ok => (/\ vector'.length = call'.index * vector.typeSize
                          /\ vector'.iterator = vector.iterator
                          /\ vector'.typeSize = vector.typeSize
                          /\ block'.valid
                          /\ block'.size = vector'.length)
           /\ ~ret'.ok => (vector' = vector /\ block' = block))]_vars

\* C14: vector_move(pos) succeeds exactly when pos * element_size <=
\* capacity_bytes, and then count() = pos with capacity_bytes and the contents
\* as they were; for every pos with pos * element_size > capacity_bytes it
\* fails and the cursor is as it was.
C14_MoveCursor ==
    [][(/\ call'.op = "move"
        /\ Consistent)
       => (/\ ~crashed'
           /\ ret'.ok <=> (call'.index * vector.typeSize <= vector.length)
           /\ ret'.ok => (/\ count' = call'.index
                          /\ vector'.length = vector.length
                          /\ block' = block)
           /\ ~ret'.ok => vector'.iterator = vector.iterator)]_vars

\* C15: vector_free returns true exactly when the container holds a buffer at
\* the call, and then releases it and leaves the container unallocated; when
\* the container holds none (a second free with no reallocation in between) it
\* returns false and releases nothing, so no block is released twice.
C15_FreeOnce ==
    [][(call'.op = "free")
       => (/\ ~crashed'
           /\ ~oob'
           /\ ret'.ok <=> (vector.data # NULL /\ block.valid)
           /\ ret'.ok => (vector'.data = NULL /\ ~block'.valid)
           /\ ~ret'.ok => (vector' = vector /\ block' = block))]_vars

\* C16: after a successful free and until a successful reallocation, every
\* call of insert, replace, replace_unsafe, remove, get, move_cursor and clear
\* returns failure, reads and writes nothing through the released buffer, and
\* leaves capacity_bytes and the cursor as they were; stated for the call
\* that follows the free.
C16_FreedOpsFail ==
    [][(/\ call.op = "free"
        /\ ret.ok
        /\ ~crashed
        /\ call'.op \in {"insert", "replace", "replace_unsafe", "remove",
                         "get", "move", "clear"})
       => (/\ ~crashed'
           /\ ~oob'
           /\ ~ret'.ok
           /\ vector'.length = vector.length
           /\ vector'.iterator = vector.iterator)]_vars

\* C17: I2, for element_size > 0 the cursor and capacity_bytes are exact
\* multiples of element_size after every sequence of calls, successful or
\* failing; stated for the containers that hold a live buffer.
C17_Multiples ==
    (~crashed /\ Consistent)
       => (/\ vector.typeSize > 0
           /\ vector.iterator % vector.typeSize = 0
           /\ vector.length % vector.typeSize = 0)

\* C18: on a container holding a live buffer, remove(n) with count() = n >= 1
\* is accepted, returns success and shifts 0 bytes (a count that is never
\* negative or wrapped), so elements 0..n-2 are as they were.
C18_RemoveAtCount ==
    [][(/\ call'.op = "remove"
        /\ Consistent
        /\ count >= 1
        /\ call'.index = count)
       => (/\ ~crashed'
           /\ ~oob'
           /\ ret'.ok
           /\ remove_memmove_size(vector, call'.index) = 0
           /\ \A k \in 1..(count - 1) :
                 Slot(block', vector.typeSize, k) = Slot(block, vector.typeSize, k))]_vars

\* C19 as stated: the length vector_makestr computes is 0 for every first and
\* last, so it copies no bytes, returns an empty null-terminated string,
\* stores 0 in *outLen when outLen is passed, and leaves the container as it
\* was.
C19_MakestrEmptyString ==
    [][(call'.op = "makestr")
       => (/\ ~crashed'
           /\ str'.copied = 0
           /\ ~str'.null
           /\ str'.text = << 0 >>
           /\ str'.outLen \in {Undef, 0}
           /\ vector' = vector
           /\ block' = block)]_vars

\* C19: the length vector_makestr computes is 0 for every first and last, so
\* it copies no bytes and stores 0 in *outLen when outLen is passed; it
\* returns an empty null-terminated string when calloc gives it the one char
\* and NULL when calloc fails; the container is left as it was.
C19_MakestrLengthZero ==
    [][(call'.op = "makestr")
       => (/\ ~crashed'
           /\ ~oob'
           /\ str'.copied = 0
           /\ str'.outLen \in {Undef, 0}
           /\ (call'.outcome # "fail") => (~str'.null /\ str'.text = << 0 >>)
           /\ (call'.outcome = "fail") => (str'.null /\ ret'.null)
           /\ vector' = vector
           /\ block' = block)]_vars

\* vector_makestr has returned the empty string and stored 0 for a range
\* first < last that lies inside the live bytes of the container
C19_Witness ==
    /\ call.op = "makestr"
    /\ ~crashed
    /\ Consistent
    /\ call.index < call.data
    /\ call.data <= vector.iterator
    /\ ~str.null
    /\ str.text = << 0 >>
    /\ str.outLen = 0

\* containers made with reserve = true whose allocation succeeded, of
\* capacity > 0
InitReserved == Init /\ Consistent /\ vector.length > 0

NextSafe ==
    \/ Insert
    \/ Remove
    \/ Replace
    \/ Clear
    \/ Move
    \/ ReallocCall

\* insert, remove, replace, clear, move and realloc, with an allocator that
\* may fail, on a container made with reserve = true and capacity > 0
SpecSafe == InitReserved /\ [][NextSafe]_vars

\* C20: on a container made with reserve = true and nonzero capacity, after
\* any sequence of insert, remove, replace, clear, move_cursor and reallocate
\* (the allocator succeeding or failing), every byte insert, remove, replace
\* or clear reads or writes lies inside [0, capacity_bytes) of the buffer
\* then allocated.
C20_AccessInBounds ==
    (call.op \in {"insert", "remove", "replace", "clear"}) => ~oob

\* C21: insert on a full container (cursor = capacity_bytes, capacity > 0)
\* whose growth reallocation fails returns failure and leaves the buffer's
\* contents, capacity_bytes and the cursor as they were; it never moves the
\* cursor past capacity_bytes; stated for the calls that return.
C21_InsertGrowthFails ==
    [][(/\ call'.op = "insert"
        /\ Consistent
        /\ capacity > 0
        /\ vector.iterator = vector.length
        /\ call'.outcome = "fail"
        /\ ~crashed')
       => (/\ ~oob'
           /\ ~ret'.ok
           /\ vector' = vector
           /\ block' = block
           /\ vector'.iterator <= vector'.length)]_vars
====
